---- MODULE Spec2Model ----
(***************************************************************************)
(* Model of the job status tracking subsystem of AdSurveillance:           *)
(* StatusManager (ad_fetch_service/status_manager.py), its in-memory cache *)
(* `active_jobs`, the cache lock, and the remote table `ads_fetch_jobs`.   *)
(*                                                                         *)
(* A Python dict is a TLA+ function whose DOMAIN is the dict's key set, so *)
(* "key in d" is  k \in DOMAIN d  and  d.update(u)  is  u @@ d.            *)
(* Timestamps are ISO-8601 strings in the code; they are modelled by the   *)
(* number of seconds they denote.  A string that is not ISO-8601 is the    *)
(* negative number BadTime.  A column that is NULL in the table is a key   *)
(* that is missing from the row.                                           *)
(***************************************************************************)
EXTENDS Integers, Sequences, FiniteSets, TLC

\* ---------------------------------------------------------------- bounds
MaxCalls == 3
MaxTicks == 1
MaxRestarts == 1

\* ------------------------------------------------------------ input sets
Threads == {"t1", "t2"}
JobIds == {"job1"}
UserIds == {"u1"}
Platforms == {"all"}
Statuses == {"pending", "running", "completed", "failed"}
AdsValues == {42}
CompetitorCounts == {2}
DaysOldValues == {0, 1}

DaySeconds == 24 * 3600
TickSteps == {DaySeconds}
BadTime == 0 - 1
NullInt == 0 - 2

NoThread == "none"
StartDir == "start directory"
NoJob == "None"
NoRow == [absent |-> TRUE]
EmptyDict == [k \in {} |-> 0]

TimeFields == <<"start_time", "end_time", "created_at", "updated_at">>

VARIABLES
    store,        \* table ads_fetch_jobs: job_id -> row or NoRow
    active_jobs,  \* self.active_jobs: job_id -> dict or NoRow
    lock,         \* self.lock: the thread that holds it, or NoThread
    now,          \* the wall clock read by datetime.now() / time.time()
    ticks, calls, restarts,
    pc,           \* per thread: position inside the running operation
    call,         \* per thread: the operation called last and its job_id
    kwargs,       \* per thread: **kwargs of the running update_job_status
    local,        \* per thread: update_data / job_data of the running call
    response,     \* per thread: response.data of the running call, as job_ids
    ret,          \* per thread: what the last call returned
    cwd,          \* the working directory of the process (os.getcwd())
    alias,        \* per thread: the job whose cache entry is the very dict
                  \* object the thread got back (ret[t].val), or NoJob
    lastWrite,    \* history: job_id -> the last write the store serialized
    lastCache     \* history: job_id -> the last write to the cache entry

vars == <<store, active_jobs, lock, now, ticks, calls, restarts,
          pc, call, kwargs, local, response, ret, alias, cwd,
          lastWrite, lastCache>>

\* ------------------------------------------------------------ dictionaries
Has(d, k) == k \in DOMAIN d

\* d.get(k) is truthy
Truthy(d, k) == Has(d, k) /\ d[k] # 0

Terminal(s) == s \in {"completed", "failed"}

\* u agrees with d on every key of u
Agrees(d, u) == \A k \in DOMAIN u : Has(d, k) /\ d[k] = u[k]

NoCall == [op |-> "none"]
NoKwargs == [given |-> EmptyDict, nones |-> {}]
NoWrite == [kind |-> "none"]
NoRet == [kind |-> "none"]
RetBool(b) == [kind |-> "bool", val |-> b]
RetJob(j) == [kind |-> "job", val |-> j]
RetNone == [kind |-> "notfound"]
RetInt(n) == [kind |-> "int", val |-> n]
RetDict(d) == [kind |-> "dict", val |-> d]
RetRaise(e) == [kind |-> "raised", val |-> e]

Init ==
    /\ store = [j \in JobIds |-> NoRow]
    /\ active_jobs = [j \in JobIds |-> NoRow]
    /\ lock = NoThread
    /\ now = 0
    /\ ticks = 0
    /\ calls = 0
    /\ restarts = 0
    /\ pc = [t \in Threads |-> "idle"]
    /\ call = [t \in Threads |-> NoCall]
    /\ kwargs = [t \in Threads |-> NoKwargs]
    /\ local = [t \in Threads |-> EmptyDict]
    /\ response = [t \in Threads |-> {}]
    /\ ret = [t \in Threads |-> NoRet]
    /\ alias = [t \in Threads |-> NoJob]
    /\ cwd = StartDir
    /\ lastWrite = [j \in JobIds |-> NoWrite]
    /\ lastCache = [j \in JobIds |-> NoWrite]

Rows == {j \in JobIds : store[j] # NoRow}
Cached == {j \in JobIds : active_jobs[j] # NoRow}

CanCall(t) == pc[t] = "idle" /\ calls < MaxCalls

\* The caller gets `r` back from the running operation.  `shared` is the
\* job whose cache entry is the very object r (NoJob when r is an object of
\* its own); `replaced` are the jobs whose cache entry is dropped or becomes
\* another object in this step.
Handing(t, r, shared, replaced) ==
    /\ pc' = [pc EXCEPT ![t] = "idle"]
    /\ ret' = [ret EXCEPT ![t] = r]
    /\ alias' = [u \in Threads |->
                   IF u = t THEN shared
                   ELSE IF alias[u] \in replaced THEN NoJob ELSE alias[u]]
    /\ local' = [local EXCEPT ![t] = EmptyDict]
    /\ kwargs' = [kwargs EXCEPT ![t] = NoKwargs]
    /\ response' = [response EXCEPT ![t] = {}]

Return(t, r) == Handing(t, r, NoJob, {})

Nested(t) == call[t].op = "update"

\* ------------------------------------------------------ update_job_status
ExplicitTimes == {0}

\* **kwargs: `given` holds the keywords whose value is not None, `nones`
\* the keywords the caller passed as None
KwargsChoices ==
    {[given |-> EmptyDict, nones |-> {}]}
    \cup {[given |-> [ads_fetched |-> a], nones |-> {}] : a \in AdsValues}
    \cup {[given |-> [end_time |-> e], nones |-> {}] : e \in ExplicitTimes}
    \cup {[given |-> EmptyDict, nones |-> {k}] : k \in {"ads_fetched", "end_time"}}

\* the value None of a keyword argument
NoneValue == 0 - 3

\* the dict **kwargs as the caller supplied it
Supplied(kw) ==
    [k \in (DOMAIN kw.given) \cup kw.nones |->
        IF k \in kw.nones THEN NoneValue ELSE kw.given[k]]

\* line 44 left out: every keyword is copied
AllSupplied(supplied) == supplied

\* lines 43-45: the keywords copied into update_data
NotNone(supplied) ==
    [k \in {x \in DOMAIN supplied : supplied[x] # NoneValue} |-> supplied[k]]

\* lines 47-49 left out
UpdateDataWithoutEndTime(status, kw) ==
    kw.given @@ [status |-> status, updated_at |-> now]

UpdateData(status, kw) ==
    LET base == [status |-> status, updated_at |-> now]
        withKw == NotNone(Supplied(kw)) @@ base
    IN  IF Terminal(status) /\ ~Has(withKw, "end_time")
        THEN [end_time |-> now] @@ withKw
        ELSE withKw

\* .update(update_data).eq('job_id', job_id).execute()
StoreUpdate(j, update_data) ==
    IF store[j] = NoRow THEN store
    ELSE [store EXCEPT ![j] = update_data @@ store[j]]

\* only the status reaches the cache entry
CacheMergeStatusOnly(entry, update_data) ==
    [status |-> update_data["status"]] @@ entry

\* self.active_jobs[job_id].update(update_data)
CacheMerge(entry, update_data) == update_data @@ entry

\* the cache is merged before the table is written
EntryMergedBeforeWrite(entry, update_data) ==
    IF entry = NoRow THEN entry ELSE update_data @@ entry

\* the cache entry when lines 51-54 raise: line 57 is not reached
EntryWhenWriteFails(entry, update_data) == entry

\* lines 36-54; when the table call raises, control goes to line 67
UpdateJobStatus(t, j, status, kw, fails) ==
    /\ CanCall(t)
    /\ calls' = calls + 1
    /\ call' = [call EXCEPT ![t] = [op |-> "update", job_id |-> j]]
    /\ IF fails
       THEN /\ pc' = [pc EXCEPT ![t] = "upd_except"]
            /\ active_jobs' = [active_jobs EXCEPT ![j] =
                                 EntryWhenWriteFails(@, UpdateData(status, kw))]
            /\ UNCHANGED <<store, lastWrite, local, kwargs, response, ret>>
       ELSE /\ store' = StoreUpdate(j, UpdateData(status, kw))
            /\ lastWrite' = IF store[j] = NoRow THEN lastWrite
                            ELSE [lastWrite EXCEPT ![j] =
                                    [kind |-> "update", data |-> UpdateData(status, kw)]]
            /\ pc' = [pc EXCEPT ![t] = "upd_lock"]
            /\ local' = [local EXCEPT ![t] = UpdateData(status, kw)]
            /\ kwargs' = [kwargs EXCEPT ![t] = kw]
            /\ response' = [response EXCEPT ![t] = {j} \cap Rows]
            /\ UNCHANGED <<ret, active_jobs>>
    /\ UNCHANGED <<cwd, lock, now, ticks, restarts, lastCache, alias>>

\* lines 67-69
UpdateExcept(t) ==
    /\ pc[t] = "upd_except"
    /\ Return(t, RetBool(FALSE))
    /\ UNCHANGED <<cwd, store, active_jobs, lock, now, ticks, calls, restarts, call,
                   lastWrite, lastCache>>

\* with self.lock: (lines 57-64) up to the call of get_job_status; line 59
\* changes the entry in place, so a caller that holds the entry sees it
UpdateCache(t) ==
    /\ pc[t] = "upd_lock"
    /\ lock = NoThread
    /\ LET j == call[t].job_id IN
       IF active_jobs[j] # NoRow
       THEN /\ active_jobs' = [active_jobs EXCEPT ![j] = CacheMerge(@, local[t])]
            /\ lastCache' = [lastCache EXCEPT ![j] =
                               [kind |-> "update", data |-> local[t],
                                matched |-> response[t] # {}]]
            /\ pc' = [pc EXCEPT ![t] = "idle"]
            /\ ret' = [u \in Threads |->
                         IF u = t THEN RetBool(TRUE)
                         ELSE IF alias[u] = j
                              THEN RetJob(CacheMerge(active_jobs[j], local[t]))
                              ELSE ret[u]]
            /\ alias' = [alias EXCEPT ![t] = NoJob]
            /\ local' = [local EXCEPT ![t] = EmptyDict]
            /\ kwargs' = [kwargs EXCEPT ![t] = NoKwargs]
            /\ response' = [response EXCEPT ![t] = {}]
            /\ UNCHANGED lock
       ELSE /\ lock' = t
            /\ pc' = [pc EXCEPT ![t] = "get_lock"]
            /\ UNCHANGED <<active_jobs, lastCache, ret, local, kwargs, response,
                           alias>>
    /\ UNCHANGED <<cwd, store, now, ticks, calls, restarts, call, lastWrite>>

\* ---------------------------------------------------------- get_job_status
\* get_job_status returns r; when update_job_status called it (line 62) the
\* rest of update_job_status runs: lines 63-66
GetReturns(t, r, cache, filled) ==
    LET j == call[t].job_id IN
    /\ active_jobs' = IF Nested(t) /\ r.kind = "job"
                      THEN [cache EXCEPT ![j] = r.val]
                      ELSE cache
    /\ lock' = IF Nested(t) THEN NoThread ELSE lock
    /\ IF Nested(t)
       THEN Handing(t, RetBool(TRUE), NoJob, filled)
       ELSE Handing(t, r, IF filled = {} THEN NoJob ELSE j, filled)

GetJobStatus(t, j) ==
    /\ CanCall(t)
    /\ calls' = calls + 1
    /\ call' = [call EXCEPT ![t] = [op |-> "get", job_id |-> j]]
    /\ pc' = [pc EXCEPT ![t] = "get_lock"]
    /\ UNCHANGED <<cwd, store, active_jobs, lock, now, ticks, restarts, local, ret,
                   alias, kwargs, response, lastWrite, lastCache>>

\* with self.lock: (lines 82-84)
GetLookup(t) ==
    /\ pc[t] = "get_lock"
    /\ lock = NoThread
    /\ LET j == call[t].job_id IN
       IF active_jobs[j] # NoRow
       THEN /\ GetReturns(t, RetJob(active_jobs[j]), active_jobs, {})
       ELSE /\ pc' = [pc EXCEPT ![t] = "get_store"]
            /\ UNCHANGED <<active_jobs, lock, ret, alias, local, kwargs,
                           response>>
    /\ UNCHANGED <<cwd, store, now, ticks, calls, restarts, call, lastWrite, lastCache>>

\* lines 97-108
WithDuration(row) ==
    IF Has(row, "end_time") /\ Has(row, "start_time")
    THEN [duration_seconds |-> row["end_time"] - row["start_time"]] @@ row
    ELSE row

\* lines 87-108 and 115-118
GetStoreRead(t, fails) ==
    /\ pc[t] = "get_store"
    /\ LET j == call[t].job_id IN
       IF fails \/ store[j] = NoRow
       THEN GetReturns(t, RetNone, active_jobs, {})
       ELSE /\ local' = [local EXCEPT ![t] = WithDuration(store[j])]
            /\ pc' = [pc EXCEPT ![t] = "get_fill"]
            /\ UNCHANGED <<active_jobs, lock, ret, alias, kwargs, response>>
    /\ UNCHANGED <<cwd, store, now, ticks, calls, restarts, call, lastWrite,
                   lastCache>>

\* lines 110-114: the dict put into the cache is the dict returned
GetFill(t) ==
    /\ pc[t] = "get_fill"
    /\ lock = NoThread
    /\ LET j == call[t].job_id IN
       /\ GetReturns(t, RetJob(local[t]), [active_jobs EXCEPT ![j] = local[t]],
                     {j})
       /\ lastCache' = [lastCache EXCEPT ![j] = [kind |-> "fill", data |-> local[t]]]
    /\ UNCHANGED <<cwd, store, now, ticks, calls, restarts, call, lastWrite>>

\* ------------------------------------------------------------ register_job
\* the job starts as running, with an end_time
JobDataStarted(j, u, p, competitor_count) ==
    [job_id |-> j, user_id |-> u, status |-> "running", platform |-> p,
     total_competitors |-> competitor_count, ads_fetched |-> 0,
     start_time |-> now, end_time |-> now, created_at |-> now, updated_at |-> now]

JobData(j, u, p, competitor_count) ==
    [job_id |-> j, user_id |-> u, status |-> "pending", platform |-> p,
     total_competitors |-> competitor_count, ads_fetched |-> 0,
     start_time |-> now, created_at |-> now, updated_at |-> now]

\* job_data is put into the cache before it is inserted
EntryCachedBeforeInsert(entry, job_data) == job_data

\* the cache entry when lines 134-155 raise: line 158 is not reached
EntryWhenInsertFails(entry, job_data) == entry

\* lines 132-155; `fails` names the store call that raises, and control
\* goes to line 162.  The table rejects a second row with the same job_id.
RegisterJob(t, j, u, p, competitor_count, fails) ==
    /\ CanCall(t)
    /\ calls' = calls + 1
    /\ call' = [call EXCEPT ![t] = [op |-> "register", job_id |-> j]]
    /\ IF fails # "none" \/ store[j] # NoRow
       THEN /\ pc' = [pc EXCEPT ![t] = "reg_except"]
            /\ active_jobs' = [active_jobs EXCEPT ![j] =
                   EntryWhenInsertFails(@, JobData(j, u, p, competitor_count))]
            /\ UNCHANGED <<store, lastWrite, local, kwargs, response, ret>>
       ELSE /\ store' = [store EXCEPT ![j] = JobData(j, u, p, competitor_count)]
            /\ lastWrite' = [lastWrite EXCEPT ![j] =
                               [kind |-> "register",
                                data |-> JobData(j, u, p, competitor_count)]]
            /\ local' = [local EXCEPT ![t] = JobData(j, u, p, competitor_count)]
            /\ pc' = [pc EXCEPT ![t] = "reg_lock"]
            /\ UNCHANGED <<ret, kwargs, response, active_jobs>>
    /\ UNCHANGED <<cwd, lock, now, ticks, restarts, lastCache, alias>>

\* lines 162-164
RegisterExcept(t) ==
    /\ pc[t] = "reg_except"
    /\ Return(t, RetBool(FALSE))
    /\ UNCHANGED <<cwd, store, active_jobs, lock, now, ticks, calls, restarts, call,
                   lastWrite, lastCache>>

\* lines 157-161
RegisterCache(t) ==
    /\ pc[t] = "reg_lock"
    /\ lock = NoThread
    /\ LET j == call[t].job_id IN
       /\ active_jobs' = [active_jobs EXCEPT ![j] = local[t]]
       /\ lastCache' = [lastCache EXCEPT ![j] = [kind |-> "register", data |-> local[t]]]
       /\ Handing(t, RetBool(TRUE), NoJob, {j})
    /\ UNCHANGED <<cwd, store, lock, now, ticks, calls, restarts, call, lastWrite>>

\* -------------------------------------------- operations without arguments
\* in the table: the caller enters cleanup_old_jobs, get_job_statistics or
\* format_job_for_display; the body runs in the next step of the thread
Enter(t, c, where) ==
    /\ CanCall(t)
    /\ calls' = calls + 1
    /\ call' = [call EXCEPT ![t] = c]
    /\ pc' = [pc EXCEPT ![t] = where]
    /\ UNCHANGED <<cwd, store, active_jobs, lock, now, ticks, restarts, local, ret,
                   alias, kwargs, response, lastWrite, lastCache>>

\* Line 8 is `from supabase import create_client, Client`: it binds no
\* module-level name `supabase`, and no other line of the module does.  The
\* bare name `supabase` at lines 222, 264 and 319 raises NameError.
SupabaseNameBound == FALSE

\* -------------------------------------------------------- cleanup_old_jobs
CleanupOldJobs(t, days_old) ==
    Enter(t, [op |-> "cleanup", days_old |-> days_old], "cleanup_body")

\* line 219: cutoff_date = datetime.now().isoformat()
StoreCutoff(days_old) == now

\* line 231
CacheCutoff(days_old) == now - (days_old * 24 * 3600)

\* lines 217-251
CleanupBody(t, fails) ==
    /\ pc[t] = "cleanup_body"
    /\ IF ~SupabaseNameBound \/ fails
       THEN /\ Return(t, RetInt(0))
            /\ UNCHANGED <<store, active_jobs, lastCache>>
       ELSE LET d == call[t].days_old
                deleted == {j \in Rows : store[j]["created_at"] < StoreCutoff(d)}
                jobs_to_remove ==
                    {j \in Cached : active_jobs[j]["created_at"] < CacheCutoff(d)}
            IN  /\ lock = NoThread
                /\ store' = [j \in JobIds |-> IF j \in deleted THEN NoRow ELSE store[j]]
                /\ active_jobs' = [j \in JobIds |->
                       IF j \in jobs_to_remove THEN NoRow ELSE active_jobs[j]]
                /\ lastCache' = [j \in JobIds |->
                       IF j \in jobs_to_remove THEN NoWrite ELSE lastCache[j]]
                /\ Handing(t, RetInt(Cardinality(deleted)), NoJob,
                           jobs_to_remove)
    /\ UNCHANGED <<cwd, lock, now, ticks, calls, restarts, call, lastWrite>>

\* ------------------------------------------------------ get_job_statistics
NoUser == "None"

GetJobStatistics(t, user_id) ==
    Enter(t, [op |-> "stats", user_id |-> user_id], "stats_body")

RECURSIVE SumOver(_, _)
SumOver(f, S) ==
    IF S = {} THEN 0
    ELSE LET x == CHOOSE y \in S : TRUE IN f[x] + SumOver(f, S \ {x})

\* lines 272-302
Statistics(jobs) ==
    LET count(st) == Cardinality({j \in jobs : store[j]["status"] = st})
        ads == [j \in jobs |-> IF Has(store[j], "ads_fetched")
                               THEN store[j]["ads_fetched"] ELSE 0]
        timed == {j \in jobs : Truthy(store[j], "duration_seconds")}
        total_duration == SumOver([j \in timed |-> store[j]["duration_seconds"]], timed)
    IN  [total_jobs |-> Cardinality(jobs),
         completed |-> count("completed"),
         failed |-> count("failed"),
         running |-> count("running"),
         pending |-> count("pending"),
         total_ads_fetched |-> SumOver(ads, jobs),
         total_duration_seconds |-> total_duration,
         avg_duration_seconds |->
             IF timed = {} THEN 0 ELSE total_duration \div Cardinality(timed)]

\* lines 263-305
StatisticsBody(t, fails) ==
    /\ pc[t] = "stats_body"
    /\ IF ~SupabaseNameBound \/ fails
       THEN Return(t, RetDict(EmptyDict))
       ELSE LET u == call[t].user_id
                jobs == {j \in Rows : u = NoUser \/ store[j]["user_id"] = u}
            IN  Return(t, RetDict(Statistics(jobs)))
    /\ UNCHANGED <<cwd, store, active_jobs, lock, now, ticks, calls, restarts, call,
                   lastWrite, lastCache>>

\* ---------------------------------------------------------- is_job_running
IsJobRunning(t, user_id, job_id) ==
    Enter(t, [op |-> "running", user_id |-> user_id, job_id |-> job_id],
          "running_body")

\* lines 319-329: the rows the query selects
RunningRows(user_id, job_id) ==
    {j \in Rows : /\ store[j]["status"] = "running"
                  /\ user_id # NoUser => store[j]["user_id"] = user_id
                  /\ job_id # NoJob => j = job_id}

\* lines 318-334
IsJobRunningBody(t, fails) ==
    /\ pc[t] = "running_body"
    /\ IF ~SupabaseNameBound \/ fails
       THEN Return(t, RetBool(FALSE))
       ELSE Return(t, RetBool(RunningRows(call[t].user_id, call[t].job_id) # {}))
    /\ UNCHANGED <<cwd, store, active_jobs, lock, now, ticks, calls, restarts, call,
                   lastWrite, lastCache>>

\* -------------------------------------------------- format_job_for_display
Min(a, b) == IF a < b THEN a ELSE b

IsIso(v) == v >= 0

\* the records a caller passes: what get_job_status hands out, and such a
\* record with a start_time that is not an ISO-8601 string, or with the
\* total_competitors column NULL
FormatInputs ==
    LET base == {active_jobs[j] : j \in Cached} IN
    base \cup {[start_time |-> BadTime] @@ b : b \in base}
         \cup {[total_competitors |-> NullInt] @@ b : b \in base}

\* the record t got back from get_job_status
HeldRecords(t) == IF ret[t].kind = "job" THEN {ret[t].val} ELSE {}

\* `held`: the caller passes the very dict it got back from get_job_status
FormatJobForDisplay(t, job, held) ==
    /\ held => job \in HeldRecords(t)
    /\ Enter(t, [op |-> "format", job |-> job, held |-> held], "format_body")

\* the dict object that is the parameter `job`
FormatInput(t) == IF call[t].held THEN ret[t].val ELSE call[t].job

\* lines 349-356
StatusIcon(job) ==
    LET status == IF Has(job, "status") THEN job["status"] ELSE "unknown" IN
    IF status \in Statuses THEN status ELSE "question"

\* lines 359-372
DurationFormatted(job) ==
    IF ~Truthy(job, "duration_seconds") THEN [fmt |-> "N/A"]
    ELSE LET duration == job["duration_seconds"] IN
         IF duration < 60 THEN [fmt |-> "s", s |-> duration]
         ELSE IF duration < 3600
              THEN [fmt |-> "m s", m |-> duration \div 60, s |-> duration % 60]
              ELSE [fmt |-> "h m", h |-> duration \div 3600,
                    m |-> (duration % 3600) \div 60]

\* the statements of lines 374-407 that raise on this record
FormatRaises(job) ==
    LET status == IF Has(job, "status") THEN job["status"] ELSE "unknown" IN
    \/ /\ status = "running"
       /\ Has(job, "start_time")
       /\ \/ ~IsIso(job["start_time"])
          \/ Has(job, "total_competitors") /\ job["total_competitors"] = NullInt
    \/ \E i \in 1..Len(TimeFields) :
          Has(job, TimeFields[i]) /\ ~IsIso(job[TimeFields[i]])

\* lines 374-400, in tenths of a percent
Progress(job) ==
    LET status == IF Has(job, "status") THEN job["status"] ELSE "unknown" IN
    IF status = "completed" THEN 1000
    ELSE IF status = "failed" THEN 0
    ELSE IF status = "running" /\ Has(job, "start_time")
    THEN LET elapsed == now - job["start_time"]
             competitors == IF Has(job, "total_competitors")
                            THEN job["total_competitors"] ELSE 1
             estimated_total == Min(competitors * 30, 300)
         IN  IF estimated_total > 0
             THEN Min(900, (elapsed * 1000) \div estimated_total)
             ELSE 500
    ELSE 0

\* lines 402-407
TimesFormatted(job) ==
    [k \in {TimeFields[i] : i \in {n \in 1..Len(TimeFields) : Has(job, TimeFields[n])}}
        |-> job[k]]

Formatted(job) ==
    [job |-> job,
     status_icon |-> StatusIcon(job),
     duration_formatted |-> DurationFormatted(job),
     progress |-> Progress(job),
     formatted_times |-> TimesFormatted(job)]

\* line 346 reads `formatted = job`: the keys are added to the input
InputFormattedInPlace(job) == [status_icon |-> StatusIcon(job)] @@ job

\* the input dict after the call: line 346 is `formatted = job.copy()` and
\* lines 356-407 assign to `formatted` only
InputAfterFormat(job) == job

\* lines 346-409: no try/except
FormatBody(t) ==
    /\ pc[t] = "format_body"
    /\ LET job == FormatInput(t) IN
       /\ IF FormatRaises(job)
          THEN Return(t, RetRaise("ValueError or TypeError"))
          ELSE Return(t, RetDict(Formatted(job)))
       /\ call' = [call EXCEPT ![t].job = InputAfterFormat(job)]
       /\ active_jobs' = IF call[t].held /\ alias[t] # NoJob
                         THEN [active_jobs EXCEPT ![alias[t]] = InputAfterFormat(job)]
                         ELSE active_jobs
    /\ UNCHANGED <<cwd, store, lock, now, ticks, calls, restarts, lastWrite, lastCache>>

\* ------------------------------------------------------------- environment
\* time passes
Tick(d) ==
    /\ ticks < MaxTicks
    /\ ticks' = ticks + 1
    /\ now' = now + d
    /\ UNCHANGED <<cwd, store, active_jobs, lock, calls, restarts, pc, call, local,
                   kwargs, response, ret, alias, lastWrite, lastCache>>

\* the process is started again: a new StatusManager() with an empty cache,
\* while the table keeps its rows
Restart ==
    /\ restarts < MaxRestarts
    /\ \A t \in Threads : pc[t] = "idle"
    /\ restarts' = restarts + 1
    /\ active_jobs' = [j \in JobIds |-> NoRow]
    /\ lock' = NoThread
    /\ pc' = [t \in Threads |-> "idle"]
    /\ call' = [t \in Threads |-> NoCall]
    /\ kwargs' = [t \in Threads |-> NoKwargs]
    /\ local' = [t \in Threads |-> EmptyDict]
    /\ response' = [t \in Threads |-> {}]
    /\ ret' = [t \in Threads |-> NoRet]
    /\ alias' = [t \in Threads |-> NoJob]
    /\ lastCache' = [j \in JobIds |-> NoWrite]
    /\ UNCHANGED <<cwd, store, now, ticks, calls, lastWrite>>

Next ==
    \/ \E t \in Threads, j \in JobIds, s \in Statuses, kw \in KwargsChoices,
          fails \in BOOLEAN : UpdateJobStatus(t, j, s, kw, fails)
    \/ \E t \in Threads : UpdateExcept(t)
    \/ \E t \in Threads : UpdateCache(t)
    \/ \E t \in Threads, j \in JobIds : GetJobStatus(t, j)
    \/ \E t \in Threads : GetLookup(t)
    \/ \E t \in Threads, fails \in BOOLEAN : GetStoreRead(t, fails)
    \/ \E t \in Threads : GetFill(t)
    \/ \E t \in Threads, j \in JobIds, u \in UserIds, p \in Platforms,
          c \in CompetitorCounts, fails \in {"none", "count", "insert"} :
          RegisterJob(t, j, u, p, c, fails)
    \/ \E t \in Threads : RegisterExcept(t)
    \/ \E t \in Threads : RegisterCache(t)
    \/ \E t \in Threads, d \in DaysOldValues : CleanupOldJobs(t, d)
    \/ \E t \in Threads, fails \in BOOLEAN : CleanupBody(t, fails)
    \/ \E t \in Threads, u \in UserIds \cup {NoUser} : GetJobStatistics(t, u)
    \/ \E t \in Threads, fails \in BOOLEAN : StatisticsBody(t, fails)
    \/ \E t \in Threads, u \in UserIds \cup {NoUser}, j \in JobIds \cup {NoJob} :
          IsJobRunning(t, u, j)
    \/ \E t \in Threads, fails \in BOOLEAN : IsJobRunningBody(t, fails)
    \/ \E t \in Threads, held \in BOOLEAN :
          \E job \in IF held THEN HeldRecords(t) ELSE FormatInputs :
             FormatJobForDisplay(t, job, held)
    \/ \E t \in Threads : FormatBody(t)
    \/ \E d \in TickSteps : Tick(d)
    \/ Restart

Spec == Init /\ [][Next]_vars

\* ------------------------------------- format_job_for_display on its own
FormatClocks == {30, 330}
FormatStarts == {0, 30, 60}
FormatCompetitors == {0, 1, 2, 11}

\* job records as a caller may pass them: any status, any total_competitors
\* >= 0, a start_time before, at or after the clock of this host, or none
FormatRecords ==
    {[status |-> s, total_competitors |-> c, start_time |-> st] :
        s \in Statuses, c \in FormatCompetitors, st \in FormatStarts}
    \cup {[status |-> s, total_competitors |-> c] :
        s \in Statuses, c \in FormatCompetitors}

InitFormat ==
    /\ store = [j \in JobIds |-> NoRow]
    /\ active_jobs = [j \in JobIds |-> NoRow]
    /\ lock = NoThread
    /\ now \in FormatClocks
    /\ ticks = 0
    /\ calls = 0
    /\ restarts = 0
    /\ pc = [t \in Threads |-> "idle"]
    /\ call = [t \in Threads |-> NoCall]
    /\ kwargs = [t \in Threads |-> NoKwargs]
    /\ local = [t \in Threads |-> EmptyDict]
    /\ response = [t \in Threads |-> {}]
    /\ ret = [t \in Threads |-> NoRet]
    /\ alias = [t \in Threads |-> NoJob]
    /\ cwd = StartDir
    /\ lastWrite = [j \in JobIds |-> NoWrite]
    /\ lastCache = [j \in JobIds |-> NoWrite]

\* the method reads no shared state: one caller shows all it does
FormatCaller == "t1"

NextFormat ==
    \/ \E job \in FormatRecords : FormatJobForDisplay(FormatCaller, job, FALSE)
    \/ FormatBody(FormatCaller)

FormatSpec == InitFormat /\ [][NextFormat]_vars

\* ------------------------------------------- callers that change a result
CallerStatus == "cancelled"

\* the caller assigns to a key of the dict get_job_status returned; when the
\* dict is the cache entry itself (lines 112-114) the entry changes with it
CallerMutates(t) ==
    /\ pc[t] = "idle"
    /\ ret[t].kind = "job"
    /\ ret[t].val["status"] # CallerStatus
    /\ LET changed == [ret[t].val EXCEPT !["status"] = CallerStatus] IN
       /\ ret' = [ret EXCEPT ![t] = RetJob(changed)]
       /\ active_jobs' = IF alias[t] # NoJob
                         THEN [active_jobs EXCEPT ![alias[t]] = changed]
                         ELSE active_jobs
    /\ call' = [call EXCEPT ![t] = [op |-> "mutate", job_id |-> call[t].job_id]]
    /\ UNCHANGED <<cwd, store, lock, now, ticks, calls, restarts, pc, kwargs, local,
                   response, alias, lastWrite, lastCache>>

NextWithCaller ==
    \/ Next
    \/ \E t \in Threads : CallerMutates(t)

CallerSpec == Init /\ [][NextWithCaller]_vars

\* ------------------------------------------------ AdsFetcher.run_for_user
ads_fetch_dir == "ads_fetch_dir"

\* What the Node.js process printed, as far as lines 186-198 look at it:
\* matches[i] is the set of numbers the i-th pattern captures in
\* stdout + stderr, hasAd is `'ad' in stdout.lower()`, adSpace is
\* stdout.count('ad ') + stdout.count('Ad ').
CapturedNumbers == {{}, {0}, {3, 7}}
AdSpaceCounts == {0, 2, 60}
Patterns == 1..4

Outputs ==
    {[matches |-> m, hasAd |-> h, adSpace |-> n] :
        m \in [Patterns -> CapturedNumbers], h \in BOOLEAN, n \in AdSpaceCounts}

\* an occurrence of 'ad ' is an occurrence of 'ad'
Printable(out) == out.adSpace > 0 => out.hasAd

NoOutput == [matches |-> [i \in Patterns |-> {}], hasAd |-> FALSE, adSpace |-> 0]

Outcomes == {"exit 0", "exit 1", "timeout", "exception"}

Max(S) == CHOOSE x \in S : \A y \in S : y <= x

\* lines 186-193: the first pattern with a match decides
ParsedCount(matches) ==
    LET matching == {i \in Patterns : matches[i] # {}} IN
    IF matching = {} THEN 0
    ELSE Max(matches[CHOOSE i \in matching : \A k \in matching : i <= k])

\* lines 195-198 left out
AdsCountParsedOnly(out) == ParsedCount(out.matches)

\* lines 172-198, for a run with return code 0
AdsCount(out) ==
    LET ads_count == ParsedCount(out.matches) IN
    IF ads_count = 0 /\ out.hasAd
    THEN Min(50, out.adSpace)
    ELSE ads_count

RetFetch(success, ads_count) ==
    [kind |-> "fetch", success |-> success, ads_count |-> ads_count]

\* lines 107-112: verify_environment, and the return when it fails
RunForUser(t, env_ok) ==
    /\ CanCall(t)
    /\ calls' = calls + 1
    /\ IF env_ok
       THEN /\ call' = [call EXCEPT ![t] = [op |-> "fetch", outcome |-> "running",
                                             output |-> NoOutput]]
            /\ pc' = [pc EXCEPT ![t] = "fetch_getcwd"]
            /\ UNCHANGED <<ret, alias, local, kwargs, response>>
       ELSE /\ call' = [call EXCEPT ![t] = [op |-> "fetch", outcome |-> "environment",
                                             output |-> NoOutput]]
            /\ Return(t, RetFetch(FALSE, 0))
    /\ UNCHANGED <<store, active_jobs, lock, now, ticks, restarts, cwd,
                   lastWrite, lastCache>>

\* line 115
FetchGetcwd(t) ==
    /\ pc[t] = "fetch_getcwd"
    /\ local' = [local EXCEPT ![t] = [original_dir |-> cwd]]
    /\ pc' = [pc EXCEPT ![t] = "fetch_chdir"]
    /\ UNCHANGED <<store, active_jobs, lock, now, ticks, calls, restarts, call,
                   kwargs, response, ret, alias, cwd, lastWrite, lastCache>>

\* line 119
FetchChdir(t) ==
    /\ pc[t] = "fetch_chdir"
    /\ cwd' = ads_fetch_dir
    /\ pc' = [pc EXCEPT ![t] = "fetch_run"]
    /\ UNCHANGED <<store, active_jobs, lock, now, ticks, calls, restarts, call,
                   kwargs, local, response, ret, alias, lastWrite, lastCache>>

\* lines 144-213: the process ends as `outcome` and has printed `out`; the
\* value of the return statement is kept until the finally clause has run
FetchRun(t, outcome, out) ==
    /\ pc[t] = "fetch_run"
    /\ Printable(out)
    /\ call' = [call EXCEPT ![t] = [op |-> "fetch", outcome |-> outcome,
                                    output |-> out]]
    /\ local' = [local EXCEPT ![t] =
                   [result |-> IF outcome = "exit 0"
                               THEN RetFetch(TRUE, AdsCount(out))
                               ELSE RetFetch(FALSE, 0)] @@ @]
    /\ pc' = [pc EXCEPT ![t] = "fetch_finally"]
    /\ UNCHANGED <<store, active_jobs, lock, now, ticks, calls, restarts,
                   kwargs, response, ret, alias, cwd, lastWrite, lastCache>>

\* lines 215-218, then the pending return
FetchFinally(t) ==
    /\ pc[t] = "fetch_finally"
    /\ cwd' = local[t]["original_dir"]
    /\ Return(t, local[t]["result"])
    /\ UNCHANGED <<store, active_jobs, lock, now, ticks, calls, restarts, call,
                   lastWrite, lastCache>>

\* parsing the output reads no shared state: one caller shows all it does
FetchCaller == "t1"

NextFetch ==
    \/ \E env_ok \in BOOLEAN : RunForUser(FetchCaller, env_ok)
    \/ FetchGetcwd(FetchCaller)
    \/ FetchChdir(FetchCaller)
    \/ \E outcome \in Outcomes, out \in Outputs : FetchRun(FetchCaller, outcome, out)
    \/ FetchFinally(FetchCaller)

FetchSpec == Init /\ [][NextFetch]_vars

\* calls of run_for_user made by several request threads; what the process
\* prints does not bear on the working directory
OverlapOutputs == {NoOutput}

NextOverlap ==
    \/ \E t \in Threads, env_ok \in BOOLEAN : RunForUser(t, env_ok)
    \/ \E t \in Threads : FetchGetcwd(t)
    \/ \E t \in Threads : FetchChdir(t)
    \/ \E t \in Threads, outcome \in Outcomes, out \in OverlapOutputs :
          FetchRun(t, outcome, out)
    \/ \E t \in Threads : FetchFinally(t)

OverlapSpec == Init /\ [][NextOverlap]_vars

\* ===================================================================== claims
Quiet == \A t \in Threads : pc[t] = "idle"

\* t leaves `from` in this step
Leaves(t, from) == pc[t] = from /\ pc'[t] # from

StatusRank(s) == IF s = "pending" THEN 0 ELSE IF s = "running" THEN 1 ELSE 2

\* pending -> running -> (completed | failed), a step or more forward
AlongLifecycle(a, b) ==
    \/ a = b
    \/ StatusRank(a) < StatusRank(b)

\* C1: whenever no operation is in progress, a cached entry that was written
\* last by an update_job_status that found the job's row holds the field
\* values of the update_job_status write that the table serialized last.
C1_CacheHoldsLastWrite ==
    Quiet => \A j \in Cached :
                (/\ lastWrite[j].kind = "update"
                 /\ lastCache[j].kind = "update"
                 /\ lastCache[j].matched)
                => Agrees(active_jobs[j], lastWrite[j].data)

\* C2: a call of update_job_status always can return: it is never waiting for
\* the cache lock while its own thread holds that lock (nobody else releases
\* it, so neither this call nor any other caller of the lock gets on).
C2_UpdateNeverWaitsForItsOwnLock ==
    \A t \in Threads : ~(pc[t] = "get_lock" /\ lock = t)

\* C3: after an update_job_status that returned true wrote the cache entry,
\* the entry is there, and a get_job_status that looks it up next returns at
\* once (no table read, the table is left alone) a record that has the status
\* and every field of that update, with an end_time when the status is
\* terminal.
C3_GetAfterUpdate ==
    [][\A t \in Threads :
         (call[t].op = "get" /\ Leaves(t, "get_lock")
            /\ lastCache[call[t].job_id].kind = "update")
         => /\ pc'[t] = "idle"
            /\ ret'[t].kind = "job"
            /\ Agrees(ret'[t].val, lastCache[call[t].job_id].data)
            /\ Terminal(ret'[t].val["status"]) => Has(ret'[t].val, "end_time")
            /\ store' = store]_vars

W3_GetAfterUpdate ==
    \E t \in Threads :
        /\ pc[t] = "idle" /\ call[t].op = "get" /\ ret[t].kind = "job"
        /\ lastCache[call[t].job_id].kind = "update"
        /\ ret[t].val["status"] = "completed"
        /\ ret[t].val["ads_fetched"] = 42
        /\ Has(ret[t].val, "end_time")

\* C4: the status of a job, in the table and in the cache, only moves forward
\* along pending -> running -> (completed | failed) and never leaves
\* completed or failed.
C4_StatusOnlyMovesForward ==
    [][\A j \in JobIds :
         /\ (store[j] # NoRow /\ store'[j] # NoRow)
               => AlongLifecycle(store[j]["status"], store'[j]["status"])
         /\ (active_jobs[j] # NoRow /\ active_jobs'[j] # NoRow)
               => AlongLifecycle(active_jobs[j]["status"], active_jobs'[j]["status"])]_vars

\* C5: when update_job_status writes a terminal status to the row of a job
\* and the caller gave no end_time, the row it wrote and the cache entry it
\* merged into have the end_time that this update took from the clock, not
\* earlier than start_time.
C5_TerminalUpdateSetsEndTime ==
    [][\A t \in Threads :
         /\ (pc[t] = "idle" /\ pc'[t] = "upd_lock"
               /\ Terminal(local'[t]["status"])
               /\ ~Has(kwargs'[t].given, "end_time")
               /\ store'[call'[t].job_id] # NoRow)
            => LET row == store'[call'[t].job_id] IN
               /\ Has(row, "end_time")
               /\ row["end_time"] = now
               /\ row["end_time"] >= row["start_time"]
         /\ (call[t].op = "update" /\ Leaves(t, "upd_lock") /\ pc'[t] = "idle"
               /\ response[t] # {}
               /\ Terminal(local[t]["status"])
               /\ ~Has(kwargs[t].given, "end_time"))
            => LET entry == active_jobs'[call[t].job_id] IN
               /\ Has(entry, "end_time")
               /\ entry["end_time"] = local[t]["end_time"]
               /\ entry["end_time"] >= entry["start_time"]]_vars

W5_TerminalUpdateSetsEndTime ==
    \E t \in Threads :
        /\ pc[t] = "idle" /\ call[t].op = "update" /\ ret[t] = RetBool(TRUE)
        /\ lastCache[call[t].job_id].kind = "update"
        /\ Terminal(active_jobs[call[t].job_id]["status"])
        /\ active_jobs[call[t].job_id]["end_time"]
              > active_jobs[call[t].job_id]["start_time"]
        /\ store[call[t].job_id]["end_time"] > store[call[t].job_id]["start_time"]

\* C6: a get_job_status that looks the job up right after a successful
\* register returns a record with status pending, ads_fetched 0, the platform
\* that was registered and no end_time.
C6_GetAfterRegister ==
    [][\A t \in Threads :
         (call[t].op = "get" /\ Leaves(t, "get_lock")
            /\ lastCache[call[t].job_id].kind = "register")
         => /\ pc'[t] = "idle"
            /\ ret'[t].kind = "job"
            /\ ret'[t].val["status"] = "pending"
            /\ ret'[t].val["ads_fetched"] = 0
            /\ ret'[t].val["platform"] = store[call[t].job_id]["platform"]
            /\ ~Has(ret'[t].val, "end_time")]_vars

W6_GetAfterRegister ==
    \E t \in Threads :
        /\ pc[t] = "idle" /\ call[t].op = "get" /\ ret[t].kind = "job"
        /\ lastCache[call[t].job_id].kind = "register"
        /\ ret[t].val["status"] = "pending"

\* C7: no operation raises to its caller.
C7_NoOperationRaises ==
    \A t \in Threads : ret[t].kind # "raised"

\* C8: cleanup_old_jobs(days_old=0) leaves no row in the table and returns
\* the number of rows there were before the call.
C8_CleanupZeroDeletesAll ==
    [][\A t \in Threads :
         (Leaves(t, "cleanup_body") /\ call[t].days_old = 0)
         => /\ ret'[t] = RetInt(Cardinality(Rows))
            /\ \A j \in JobIds : store'[j] = NoRow]_vars

\* job j of dictionary d was created before the cutoff of days_old
OlderThan(d, j, days_old) == d[j]["created_at"] < now - days_old * DaySeconds

\* C9: cleanup_old_jobs(days_old) removes from the table and from the cache
\* exactly the jobs created before now - days_old.
C9_CleanupRemovesExactlyOld ==
    [][\A t \in Threads :
         Leaves(t, "cleanup_body")
         => \A j \in JobIds :
              /\ store'[j] # NoRow
                    <=> (store[j] # NoRow /\ ~OlderThan(store, j, call[t].days_old))
              /\ active_jobs'[j] # NoRow
                    <=> (active_jobs[j] # NoRow
                           /\ ~OlderThan(active_jobs, j, call[t].days_old))]_vars

ZeroStatistics ==
    [total_jobs |-> 0, completed |-> 0, failed |-> 0, running |-> 0,
     pending |-> 0, total_ads_fetched |-> 0, avg_duration_seconds |-> 0]

\* C10: get_job_statistics over an empty table returns a summary whose
\* counts and avg_duration_seconds are all zero.
C10_EmptyStatisticsAreZero ==
    [][\A t \in Threads :
         (Leaves(t, "stats_body") /\ Rows = {})
         => /\ ret'[t].kind = "dict"
            /\ Agrees(ret'[t].val, ZeroStatistics)]_vars

\* C11: is_job_running returns true exactly when the table holds a row with
\* status running that matches every filter it was given.
C11_IsJobRunningIsExistence ==
    [][\A t \in Threads :
         Leaves(t, "running_body")
         => ret'[t] = RetBool(\E j \in Rows :
                         /\ store[j]["status"] = "running"
                         /\ call[t].user_id # NoUser
                               => store[j]["user_id"] = call[t].user_id
                         /\ call[t].job_id # NoJob => j = call[t].job_id)]_vars

\* C12: a record returned by get_job_status carries duration_seconds =
\* end_time - start_time when both times are present, and has no
\* duration_seconds key when either is absent.
C12_DurationFollowsTimes ==
    \A t \in Threads :
        (call[t].op = "get" /\ pc[t] = "idle" /\ ret[t].kind = "job")
        => LET r == ret[t].val IN
           IF Has(r, "start_time") /\ Has(r, "end_time")
           THEN /\ Has(r, "duration_seconds")
                /\ r["duration_seconds"] = r["end_time"] - r["start_time"]
           ELSE ~Has(r, "duration_seconds")

\* C17: two concurrent updates of one job, the first setting ads_fetched and
\* the second setting status, both land: once both have returned, the table
\* and the cache hold the ads_fetched of the first and the status of the
\* second.
C17_DisjointUpdatesBothLand ==
    \A j \in JobIds :
        ( /\ Quiet
          /\ lastWrite[j].kind = "update"
          /\ ~Has(lastWrite[j].data, "ads_fetched")
          /\ store[j] # NoRow /\ store[j]["ads_fetched"] \in AdsValues
          /\ active_jobs[j] # NoRow
          /\ lastCache[j].kind = "update" /\ lastCache[j].matched )
        => /\ store[j]["status"] = lastWrite[j].data["status"]
           /\ active_jobs[j]["ads_fetched"] = store[j]["ads_fetched"]
           /\ active_jobs[j]["status"] = lastWrite[j].data["status"]

\* C19: no thread holds the cache lock while it starts or waits on a table
\* call or calls an operation that takes the lock.
C19_NoCallUnderLock ==
    \A t \in Threads :
        lock = t => pc[t] \notin {"get_lock", "get_store", "get_fill"}

\* t reaches `to` in this step
Reaches(t, to) == pc[t] # to /\ pc'[t] = to

\* C16: a register_job whose count query or insert fails (an insert of a
\* job_id the table already holds included) returns false, raises nothing,
\* and neither adds nor overwrites a cache entry.
C16_FailedRegisterLeavesCache ==
    [][\A t \in Threads :
         /\ Reaches(t, "reg_except")
              => active_jobs' = active_jobs /\ store' = store
         /\ Leaves(t, "reg_except")
              => ret'[t] = RetBool(FALSE) /\ active_jobs' = active_jobs]_vars

\* a register_job of a job_id the table already holds has returned false and
\* the cache entry, already past pending, is still there
W16_FailedRegisterLeavesCache ==
    \E t \in Threads :
        /\ call[t].op = "register" /\ pc[t] = "idle"
        /\ ret[t] = RetBool(FALSE)
        /\ store[call[t].job_id] # NoRow
        /\ active_jobs[call[t].job_id] # NoRow
        /\ active_jobs[call[t].job_id]["status"] # "pending"

\* C20: update_job_status changes the cache only after its table write went
\* through: when the write raises, the call returns false and leaves the
\* cache (and the table) as they were.
C20_CacheAfterStoreWrite ==
    [][\A t \in Threads :
         /\ Reaches(t, "upd_except")
              => active_jobs' = active_jobs /\ store' = store
         /\ Leaves(t, "upd_except")
              => ret'[t] = RetBool(FALSE) /\ active_jobs' = active_jobs
         /\ (pc'[t] # pc[t] /\ call'[t].op = "update"
               /\ active_jobs' # active_jobs)
              => pc[t] = "upd_lock"]_vars

\* an update_job_status of a cached job has returned false
W20_CacheAfterStoreWrite ==
    \E t \in Threads :
        /\ call[t].op = "update" /\ pc[t] = "idle"
        /\ ret[t] = RetBool(FALSE)
        /\ active_jobs[call[t].job_id] # NoRow
        /\ active_jobs[call[t].job_id] = store[call[t].job_id]

\* C15: format_job_for_display leaves its input record as it was, and changes
\* neither the cache nor the table.
C15_FormatLeavesInput ==
    [][\A t \in Threads :
         Leaves(t, "format_body")
         => /\ call'[t].job = FormatInput(t)
            /\ active_jobs' = active_jobs
            /\ store' = store]_vars

\* format_job_for_display has returned its dict for the very record that
\* get_job_status handed to the caller, and the cache holds that record
W15_FormatLeavesInput ==
    \E t \in Threads :
        /\ call[t].op = "format" /\ pc[t] = "idle"
        /\ call[t].held
        /\ ret[t].kind = "dict" /\ ret[t].val.job = call[t].job
        /\ \E j \in Cached : active_jobs[j] = call[t].job

\* C13: a caller cannot change the cache through a record get_job_status
\* returned: no get_job_status returns a value that a caller assigned to a
\* record it got back earlier.
C13_CallerCannotChangeCache ==
    \A t \in Threads :
        (call[t].op = "get" /\ pc[t] = "idle" /\ ret[t].kind = "job")
        => ret[t].val["status"] # CallerStatus

\* C14: format_job_for_display gives progress 100 for completed, 0 for failed
\* and for pending, and for running a value from 0 to 90 that is the linear
\* estimate elapsed / min(total_competitors * 30, 300) capped at 90
\* (progress is counted in tenths of a percent).
C14_ProgressInRange ==
    \A t \in Threads :
        (call[t].op = "format" /\ pc[t] = "idle" /\ ret[t].kind = "dict")
        => LET job == ret[t].val.job
               progress == ret[t].val.progress
           IN  /\ job["status"] = "completed" => progress = 1000
               /\ job["status"] \in {"failed", "pending"} => progress = 0
               /\ job["status"] = "running"
                    => /\ 0 <= progress /\ progress <= 900
                       /\ (Has(job, "start_time") /\ job["total_competitors"] > 0)
                            => progress =
                                 Min(900, ((now - job["start_time"]) * 1000)
                                     \div Min(job["total_competitors"] * 30, 300))

\* t's run_for_user has returned
Fetched(t) == call[t].op = "fetch" /\ pc[t] = "idle" /\ ret[t].kind = "fetch"

\* C18 as stated: the count run_for_user returns is the number its patterns
\* parse from the output, and zero when no pattern matches or the run fails
\* or times out.
C18_CountIsParsedNumber ==
    \A t \in Threads :
        Fetched(t)
        => ret[t].ads_count = IF call[t].outcome = "exit 0"
                              THEN ParsedCount(call[t].output.matches)
                              ELSE 0

\* C18, amended: the count is zero when the run fails, times out or the
\* environment check fails; after a run with return code 0 it is the number
\* parsed by the first matching pattern when that is not zero, and else
\* (no pattern matches, or the number is 0) the number of 'ad ' and 'Ad '
\* in stdout, at most 50, when stdout contains 'ad', and zero when not.
C18_CountIsParsedOrEstimated ==
    \A t \in Threads :
        Fetched(t)
        => LET out == call[t].output
               parsed == ParsedCount(out.matches)
           IN  IF call[t].outcome # "exit 0" THEN ret[t].ads_count = 0
               ELSE IF parsed # 0 THEN ret[t].ads_count = parsed
               ELSE IF ~out.hasAd THEN ret[t].ads_count = 0
               ELSE IF out.adSpace <= 50 THEN ret[t].ads_count = out.adSpace
               ELSE ret[t].ads_count = 50

\* a run with return code 0 whose output matches no pattern has returned the
\* estimate
W18_CountIsParsedOrEstimated ==
    \E t \in Threads :
        /\ Fetched(t)
        /\ call[t].outcome = "exit 0"
        /\ \A i \in Patterns : call[t].output.matches[i] = {}
        /\ ret[t].ads_count = 2

\* C21: once every run_for_user call that was started has returned, however
\* it ended and also when calls of several threads overlapped, the working
\* directory of the process is the one it was before the calls began.
C21_WorkingDirectoryRestored ==
    Quiet => cwd = StartDir

\* C22: update_job_status writes no keyword the caller passed as None, to
\* the table or to the cache: the field keeps the value it had, except that
\* a terminal update called with end_time=None sets end_time to the current
\* time, as if no end_time had been passed.
C22_NoneIsNotWritten ==
    [][\A t \in Threads :
         /\ Reaches(t, "upd_lock")
              => LET j == call'[t].job_id
                     status == local'[t]["status"]
                 IN  /\ \A k \in (DOMAIN local'[t]) \ {"status"} :
                           local'[t][k] # NoneValue
                     /\ store[j] # NoRow
                          => \A k \in kwargs'[t].nones :
                               IF k = "end_time" /\ Terminal(status)
                               THEN /\ Has(store'[j], k)
                                    /\ store'[j][k] = now
                               ELSE /\ Has(store'[j], k) = Has(store[j], k)
                                    /\ Has(store[j], k) => store'[j][k] = store[j][k]
         /\ (Leaves(t, "upd_lock") /\ active_jobs[call[t].job_id] # NoRow)
              => LET j == call[t].job_id IN
                 \A k \in kwargs[t].nones :
                    IF k = "end_time" /\ Terminal(local[t]["status"])
                    THEN /\ Has(active_jobs'[j], k)
                         /\ active_jobs'[j][k] = local[t][k]
                         /\ active_jobs'[j][k] # NoneValue
                    ELSE /\ Has(active_jobs'[j], k) = Has(active_jobs[j], k)
                         /\ Has(active_jobs[j], k)
                              => active_jobs'[j][k] = active_jobs[j][k]]_vars

\* an update called with ads_fetched=None has written the table, and the
\* row still holds the ads_fetched an earlier update gave it
W22_NoneIsNotWritten ==
    \E t \in Threads :
        /\ pc[t] = "upd_lock"
        /\ kwargs[t].nones = {"ads_fetched"}
        /\ store[call[t].job_id] # NoRow
        /\ store[call[t].job_id]["ads_fetched"] \in AdsValues
        /\ lastWrite[call[t].job_id].kind = "update"
        /\ ~Has(lastWrite[call[t].job_id].data, "ads_fetched")

====
